---- MODULE Spec2Model ----
(***************************************************************************)
(* A model of find_refs.py: the search for cross-document references       *)
(* "document#object.property" in the Document.xml of every *.FCStd archive *)
(* of the current directory.                                               *)
(*                                                                         *)
(* Text is a sequence of one-character strings, so that the pattern search *)
(* of the scanner works on characters.  A markup element is a record       *)
(* [tag, attrib, children]; attrib is a function from the names of the     *)
(* attributes the element carries to their text.  A call that can raise    *)
(* returns a record [ok, value, error].                                    *)
(***************************************************************************)
EXTENDS Integers, Sequences, FiniteSets, TLC

VARIABLES
    corpus,            \* the *.FCStd files of the current directory, in glob order
    ref,               \* the Reference searched for
    pc,                \* where the program is
    i,                 \* index of the document the running loop is at
    root_by_document,  \* find_root_by_document's dictionary, in insertion order
    open,              \* indices of the archives whose handle is open
    matches,           \* find_references' local list
    result,            \* what find_references returned to its caller
    stdout,            \* the lines printed
    status,            \* the exit status of the process, -1 while it runs
    arg,               \* the element a scanner or walker call is applied to
    ret                \* what that call returned

vars == <<corpus, ref, pc, i, root_by_document, open, matches, result,
          stdout, status, arg, ret>>

(***************************************************************************)
(* Bounds of the model.                                                    *)
(***************************************************************************)
MaxLeaves == 2
MaxObjects == 2
MaxDocs == 2

(***************************************************************************)
(* Text.                                                                   *)
(***************************************************************************)
RECURSIVE Join(_)
Join(s) == IF s = <<>> THEN "" ELSE Head(s) \o Join(Tail(s))

Main == <<"M", "a", "i", "n">>
Sheet == <<"S", "h", "e", "e", "t">>
Value == <<"V", "a", "l", "u", "e">>
Cube == <<"C", "u", "b", "e">>
Box == <<"B", "o", "x">>
Height == <<"H", "e", "i", "g", "h", "t">>
Radius == <<"R", "a", "d", "i", "u", "s">>
Label == <<"L", "a", "b", "e", "l">>
cells == <<"c", "e", "l", "l", "s">>
ExpressionEngine ==
    <<"E", "x", "p", "r", "e", "s", "s", "i", "o", "n", "E", "n", "g", "i", "n", "e">>
B1 == <<"B", "1">>
A2 == <<"A", "2">>
FCStd == <<".", "F", "C", "S", "t", "d">>

(***************************************************************************)
(* Results of calls that can raise.                                        *)
(***************************************************************************)
Ok(v) == [ok |-> TRUE, value |-> v, error |-> "none"]
Raise(e) == [ok |-> FALSE, value |-> <<>>, error |-> e]
Pending == [ok |-> FALSE, value |-> <<>>, error |-> "pending"]

(***************************************************************************)
(* Markup elements (xml.etree.ElementTree.Element).                        *)
(***************************************************************************)
NoAttrib == [a \in {} |-> <<>>]
Element(tag, attrib, children) ==
    [tag |-> tag, attrib |-> attrib, children |-> children]
None == [tag |-> "None", attrib |-> NoAttrib, children |-> <<>>]

\* Element.find(tag): the first direct child of that tag, or None.
find(element, tag) ==
    LET found == SelectSeq(element.children, LAMBDA c : c.tag = tag)
    IN  IF found = <<>> THEN None ELSE Head(found)

\* Element.findall(tag): the direct children of that tag, in document order.
findall(element, tag) == SelectSeq(element.children, LAMBDA c : c.tag = tag)

(***************************************************************************)
(* Reference and Match.                                                    *)
(***************************************************************************)
Reference(document, object_name, property_name) ==
    [document |-> document, object_name |-> object_name,
     property_name |-> property_name]

\* '{}#{}.{}'.format(document, object_name, property_name)
Reference_to_string(r) ==
    r.document \o <<"#">> \o r.object_name \o <<".">> \o r.property_name

Match(document, object_name, property_name, location) ==
    [document |-> document, object_name |-> object_name,
     property_name |-> property_name, location |-> location]

\* '{} {}.{} ({})'.format(document, object_name, location, property_name)
Match_to_string(m) ==
    m.document \o <<" ">> \o m.object_name \o <<".">> \o m.location
        \o <<" ", "(">> \o m.property_name \o <<")">>

(***************************************************************************)
(* re.compile(pattern).search(content).  The names of the model are made   *)
(* of letters and digits, so the only pattern metacharacter that occurs is *)
(* the '.' of the canonical string, which matches any character but a      *)
(* newline; '#' is an ordinary character.                                  *)
(***************************************************************************)
pattern_char_matches(p, c) == IF p = "." THEN c # "\n" ELSE p = c

pattern_matches_at(pattern, content, k) ==
    \A j \in 1..Len(pattern) : pattern_char_matches(pattern[j], content[k + j - 1])

pattern_search(pattern, content) ==
    \E k \in 1..(Len(content) - Len(pattern) + 1) :
        pattern_matches_at(pattern, content, k)

(***************************************************************************)
(* Property Scanner.                                                       *)
(***************************************************************************)
\* mutant: a leaf without the reference attribute is skipped (attrib.get)
RECURSIVE scan_children_skipping(_, _, _, _, _)
scan_children_skipping(children, reference_attribute, location_attribute, reference, locations) ==
    IF children = <<>> THEN Ok(locations)
    ELSE LET child_element == Head(children)
         IN  IF reference_attribute \notin DOMAIN child_element.attrib
             THEN scan_children_skipping(Tail(children), reference_attribute,
                      location_attribute, reference, locations)
             ELSE IF pattern_search(Reference_to_string(reference),
                                    child_element.attrib[reference_attribute])
                  THEN IF location_attribute \notin DOMAIN child_element.attrib
                       THEN Raise("KeyError")
                       ELSE scan_children_skipping(Tail(children), reference_attribute,
                                location_attribute, reference,
                                Append(locations,
                                       child_element.attrib[location_attribute]))
                  ELSE scan_children_skipping(Tail(children), reference_attribute,
                           location_attribute, reference, locations)

\* The loop of find_references_in_property over the leaves found, with the
\* locations appended so far.
RECURSIVE scan_children(_, _, _, _, _)
scan_children(children, reference_attribute, location_attribute, reference, locations) ==
    IF children = <<>> THEN Ok(locations)
    ELSE LET child_element == Head(children)
         IN  IF reference_attribute \notin DOMAIN child_element.attrib
             THEN Raise("KeyError")
             ELSE IF pattern_search(Reference_to_string(reference),
                                    child_element.attrib[reference_attribute])
                  THEN IF location_attribute \notin DOMAIN child_element.attrib
                       THEN Raise("KeyError")
                       ELSE scan_children(Tail(children), reference_attribute,
                                location_attribute, reference,
                                Append(locations,
                                       child_element.attrib[location_attribute]))
                  ELSE scan_children(Tail(children), reference_attribute,
                           location_attribute, reference, locations)

\* property is the nested container, None when the Property node has none.
find_references_in_property(child_element_name, reference_attribute, location_attribute, reference, property) ==
    IF property = None THEN Raise("AttributeError")
    ELSE scan_children(findall(property, child_element_name), reference_attribute,
                       location_attribute, reference, <<>>)

find_references_in_cells(reference, property) ==
    find_references_in_property("Cell", "content", "address", reference, property)

find_references_in_expression_engine(reference, property) ==
    find_references_in_property("Expression", "expression", "path", reference, property)

\* class Property: the element, the tag of its nested container, and which
\* of the two find-references functions it was given.
Property(property_element, nested_element_name, make_find_references) ==
    [property_element |-> property_element,
     nested_element_name |-> nested_element_name,
     make_find_references |-> make_find_references]

create_property(property_element) ==
    LET property_name == property_element.attrib["name"]
    IN  IF property_name = cells
        THEN Property(property_element, "Cells", "cells")
        ELSE IF property_name = ExpressionEngine
             THEN Property(property_element, "ExpressionEngine", "expression_engine")
             ELSE None

Property_find_locations(property, reference) ==
    LET nested_element == find(property.property_element, property.nested_element_name)
    IN  IF property.make_find_references = "cells"
        THEN find_references_in_cells(reference, nested_element)
        ELSE find_references_in_expression_engine(reference, nested_element)

\* mutant: "Label" is taken for a property with references
properties_with_references_and_label == {cells, ExpressionEngine, Label}

properties_with_references == {cells, ExpressionEngine}

\* make_find_locations(property_element)(reference)
find_locations(property_element, reference) ==
    IF "name" \notin DOMAIN property_element.attrib THEN Raise("KeyError")
    ELSE IF property_element.attrib["name"] \in properties_with_references
         THEN LET property == create_property(property_element)
              IN  IF property = None THEN Raise("AttributeError")
                  ELSE Property_find_locations(property, reference)
         ELSE Ok(<<>>)

(***************************************************************************)
(* Document Tree Walker.                                                   *)
(***************************************************************************)
\* mutant: the matches of a property are put in front of those found before
prepend_matches(acc, document, object_name, property_name, locations) ==
    [k \in 1..Len(locations) |->
        Match(document, object_name, property_name, locations[k])] \o acc

\* matches.append(Match(...)) for every location, in order.
append_matches(acc, document, object_name, property_name, locations) ==
    acc \o [k \in 1..Len(locations) |->
                   Match(document, object_name, property_name, locations[k])]

\* The inner loop of find_references_in_root over one object's Property nodes.
RECURSIVE walk_properties(_, _, _, _, _)
walk_properties(document, object_name, properties, reference, acc) ==
    IF properties = <<>> THEN Ok(acc)
    ELSE LET property == Head(properties)
         IN  IF "name" \notin DOMAIN property.attrib THEN Raise("KeyError")
             ELSE LET locations == find_locations(property, reference)
                  IN  IF ~locations.ok THEN Raise(locations.error)
                      ELSE walk_properties(document, object_name, Tail(properties),
                               reference,
                               append_matches(acc, document, object_name,
                                              property.attrib["name"],
                                              locations.value))

\* mutant: an object without a Properties section is taken to have none
findall_properties_or_none(properties) ==
    IF properties = None THEN Ok(<<>>) ELSE Ok(findall(properties, "Property"))

\* properties.findall('Property'), properties being None when the object has
\* no Properties section.
findall_properties(properties) ==
    IF properties = None THEN Raise("AttributeError")
    ELSE Ok(findall(properties, "Property"))

\* The outer loop of find_references_in_root over the children of ObjectData.
RECURSIVE walk_objects(_, _, _, _)
walk_objects(document, objects, reference, acc) ==
    IF objects = <<>> THEN Ok(acc)
    ELSE LET object == Head(objects)
             properties == find(object, "Properties")
         IN  IF "name" \notin DOMAIN object.attrib THEN Raise("KeyError")
             ELSE IF ~findall_properties(properties).ok
                  THEN Raise(findall_properties(properties).error)
                  ELSE LET inner == walk_properties(document, object.attrib["name"],
                                        findall_properties(properties).value,
                                        reference, acc)
                       IN  IF ~inner.ok THEN Raise(inner.error)
                           ELSE walk_objects(document, Tail(objects), reference,
                                             inner.value)

find_references_in_root(document, root, reference) ==
    LET object_data == find(root, "ObjectData")
    IN  IF object_data = None THEN Raise("TypeError")
        ELSE walk_objects(document, object_data.children, reference, <<>>)

(***************************************************************************)
(* Inputs.                                                                 *)
(***************************************************************************)
SeqUpTo(S, n) == UNION {[1..k -> S] : k \in 0..n}

References == {Reference(Main, Sheet, Value), Reference(Cube, Box, Height)}

MainSheetValue == Reference_to_string(Reference(Main, Sheet, Value))
CubeBoxHeight == Reference_to_string(Reference(Cube, Box, Height))
\* "=Main#Sheet.Value": a formula that uses the reference
EqMainSheetValue == <<"=">> \o MainSheetValue
\* "=Main#Sheet.Value2": a longer reference the canonical string is a prefix of
EqMainSheetValue2 == EqMainSheetValue \o <<"2">>
\* "=Main#SheetXValue": the canonical string with its '.' replaced
EqMainSheetXValue == <<"=">> \o Main \o <<"#">> \o Sheet \o <<"X">> \o Value
Five == <<"5">>

CellContents == {EqMainSheetValue, EqMainSheetValue2, EqMainSheetXValue, Five}
CellAddresses == {B1, A2}
ExpressionTexts == {MainSheetValue, CubeBoxHeight}
ExpressionPaths == {Radius}

\* <Cell address=".." content=".."/>, also with either attribute missing
CellLeaves ==
    {Element("Cell", a, <<>>) :
        a \in {[content |-> c, address |-> l] : c \in CellContents, l \in CellAddresses}
              \cup {[content |-> c] : c \in CellContents}
              \cup {[address |-> l] : l \in CellAddresses}
              \cup {NoAttrib}}

\* <Expression path=".." expression=".."/>, also with either attribute missing
ExpressionLeaves ==
    {Element("Expression", a, <<>>) :
        a \in {[expression |-> c, path |-> l] : c \in ExpressionTexts, l \in ExpressionPaths}
              \cup {[expression |-> c] : c \in ExpressionTexts}
              \cup {[path |-> l] : l \in ExpressionPaths}}

\* <XLinks count="0"/>: a child of the container that is no leaf
XLinks == Element("XLinks", [count |-> <<"0">>], <<>>)

Leaves == CellLeaves \cup ExpressionLeaves \cup {XLinks}

\* <Cells>..</Cells> and <ExpressionEngine>..</ExpressionEngine>
Containers ==
    {Element(t, NoAttrib, l) : t \in {"Cells", "ExpressionEngine"},
                               l \in SeqUpTo(Leaves, MaxLeaves)}

\* <Property name="..">..</Property>, also without a name and without content
PropertyNodes ==
    {Element("Property", a, c) :
        a \in {[name |-> cells], [name |-> ExpressionEngine], [name |-> Label], NoAttrib},
        c \in {<<>>} \cup {<<n>> : n \in Containers}}

(***************************************************************************)
(* Inputs of the walker: documents of up to MaxObjects objects.            *)
(***************************************************************************)
Cell(address, content) == Element("Cell", [address |-> address, content |-> content], <<>>)
Expression(path, expression) == Element("Expression", [path |-> path, expression |-> expression], <<>>)
PropertyNode(name, children) == Element("Property", [name |-> name], children)

\* a sheet with three uses of Main#Sheet.Value as the scanner sees them, two
\* of them at the same address
CellsProperty ==
    PropertyNode(cells,
        <<Element("Cells", NoAttrib,
            <<XLinks, Cell(B1, EqMainSheetValue), Cell(A2, Five),
              Cell(A2, EqMainSheetValue2), Cell(B1, EqMainSheetValue)>>)>>)

ExpressionEngineProperty ==
    PropertyNode(ExpressionEngine,
        <<Element("ExpressionEngine", NoAttrib,
            <<XLinks, Expression(Height, CubeBoxHeight),
              Expression(Radius, MainSheetValue)>>)>>)

\* <Property name="Label"><String value="Main#Sheet.Value"/></Property>
LabelProperty ==
    PropertyNode(Label, <<Element("String", [value |-> MainSheetValue], <<>>)>>)

\* a sheet whose second cell has no content attribute
CellsWithoutContentProperty ==
    PropertyNode(cells,
        <<Element("Cells", NoAttrib,
            <<Cell(B1, EqMainSheetValue), Element("Cell", [address |-> A2], <<>>)>>)>>)

\* a "cells" property without its Cells container
CellsWithoutContainerProperty == PropertyNode(cells, <<>>)

\* a Property node without a name
NamelessProperty == Element("Property", NoAttrib, <<>>)

PropertyLists ==
    { <<>>,
      <<LabelProperty>>,
      <<LabelProperty, CellsProperty>>,
      <<CellsProperty, ExpressionEngineProperty>>,
      <<ExpressionEngineProperty, LabelProperty, CellsProperty>>,
      <<CellsProperty, CellsWithoutContentProperty>>,
      <<ExpressionEngineProperty, CellsWithoutContainerProperty>>,
      <<CellsProperty, NamelessProperty>> }

\* <Object name=".."><Properties>..</Properties></Object>, also without its
\* Properties section, and without a name
Objects ==
    {Element("Object", [name |-> n], <<Element("Properties", NoAttrib, l)>>) :
        n \in {Sheet, Box}, l \in PropertyLists}
    \cup {Element("Object", [name |-> n], <<>>) : n \in {Sheet, Box}}
    \cup {Element("Object", NoAttrib, <<Element("Properties", NoAttrib, <<CellsProperty>>)>>)}

\* <Document><ObjectData>..</ObjectData></Document>, also without ObjectData
Roots ==
    {Element("Document", NoAttrib, <<Element("ObjectData", NoAttrib, o)>>) :
        o \in SeqUpTo(Objects, MaxObjects)}
    \cup {Element("Document", NoAttrib, <<>>)}

\* the name of the k-th file glob lists: "Doc1.FCStd", "Doc2.FCStd", ...
FileName(k) == <<"D", "o", "c", ToString(k)>> \o FCStd

(***************************************************************************)
(* SpecScanner: one call of the Property Scanner on any Property node.     *)
(***************************************************************************)
Idle ==
    /\ corpus = <<>>
    /\ i = 0
    /\ root_by_document = <<>>
    /\ open = {}
    /\ matches = <<>>
    /\ result = Pending
    /\ stdout = <<>>
    /\ status = -1

InitScanner ==
    /\ arg \in PropertyNodes
    /\ ref \in References
    /\ pc = "call"
    /\ ret = Pending
    /\ Idle

Scan ==
    /\ pc = "call"
    /\ ret' = find_locations(arg, ref)
    /\ pc' = "returned"
    /\ UNCHANGED <<corpus, ref, i, root_by_document, open, matches, result,
                   stdout, status, arg>>

SpecScanner == InitScanner /\ [][Scan]_vars

(***************************************************************************)
(* Helpers of the properties.                                              *)
(***************************************************************************)
\* t occurs in s as contiguous text
Occurs(t, s) == \E k \in 1..(Len(s) - Len(t) + 1) : SubSeq(s, k, k + Len(t) - 1) = t

IsNamed(element) == "name" \in DOMAIN element.attrib

IsReferenceBearing(element) ==
    IsNamed(element) /\ element.attrib["name"] \in {cells, ExpressionEngine}

\* the attribute holding the text of a leaf, and the one holding its location
ContentAttribute(leaf) == IF leaf.tag = "Cell" THEN "content" ELSE "expression"
LocationAttribute(leaf) == IF leaf.tag = "Cell" THEN "address" ELSE "path"

\* the leaves the scanner of a reference-bearing Property node looks at
LeavesOf(property_element) ==
    LET kind == IF property_element.attrib["name"] = cells THEN "Cells"
                ELSE "ExpressionEngine"
        leaf == IF kind = "Cells" THEN "Cell" ELSE "Expression"
        nested == SelectSeq(property_element.children, LAMBDA c : c.tag = kind)
    IN  IF nested = <<>> THEN <<>>
        ELSE SelectSeq(nested[1].children, LAMBDA c : c.tag = leaf)

\* the leaf's text contains the canonical string of r, literally
LeafMentions(leaf, r) ==
    /\ ContentAttribute(leaf) \in DOMAIN leaf.attrib
    /\ Occurs(Reference_to_string(r), leaf.attrib[ContentAttribute(leaf)])

\* the locations of the leaves that mention r, in leaf order
LiteralLocations(property_element, r) ==
    LET hit == SelectSeq(LeavesOf(property_element), LAMBDA l : LeafMentions(l, r))
    IN  [k \in 1..Len(hit) |-> hit[k].attrib[LocationAttribute(hit[k])]]

(***************************************************************************)
(* C2: a Property node whose name is neither "cells" nor                   *)
(* "ExpressionEngine" makes the scanner return the empty sequence, without *)
(* error, whatever is nested in it.                                        *)
(***************************************************************************)
C2_OtherPropertyYieldsNothing ==
    (pc = "returned" /\ IsNamed(arg) /\ ~IsReferenceBearing(arg)) => ret = Ok(<<>>)

\* reached: a "Label" property holding a Cells container with a leaf that
\* mentions the reference was scanned
C2_Witness ==
    /\ pc = "returned"
    /\ IsNamed(arg) /\ arg.attrib["name"] = Label
    /\ \E n \in 1..Len(arg.children) :
          /\ arg.children[n].tag = "Cells"
          /\ \E k \in 1..Len(arg.children[n].children) :
                LeafMentions(arg.children[n].children[k], ref)
    /\ ret = Ok(<<>>)

(***************************************************************************)
(* C3: the scanner of a reference-bearing property emits a leaf's location *)
(* exactly when the canonical string of the reference occurs as contiguous *)
(* text in the leaf's content.                                             *)
(***************************************************************************)
C3_EmitsExactlyOnOccurrence ==
    (pc = "returned" /\ IsReferenceBearing(arg) /\ ret.ok)
        => ret.value = LiteralLocations(arg, ref)

(***************************************************************************)
(* SpecWalker: one call of the Document Tree Walker on any document.       *)
(***************************************************************************)
InitWalker ==
    /\ arg \in Roots
    /\ ref \in References
    /\ pc = "call"
    /\ ret = Pending
    /\ Idle

Walk ==
    /\ pc = "call"
    /\ ret' = find_references_in_root(FileName(1), arg, ref)
    /\ pc' = "returned"
    /\ UNCHANGED <<corpus, ref, i, root_by_document, open, matches, result,
                   stdout, status, arg>>

SpecWalker == InitWalker /\ [][Walk]_vars

RECURSIVE Flatten(_)
Flatten(ss) == IF ss = <<>> THEN <<>> ELSE Head(ss) \o Flatten(Tail(ss))

\* the objects of a document, and the Property nodes of an object
ObjectsOf(root) ==
    LET od == SelectSeq(root.children, LAMBDA c : c.tag = "ObjectData")
    IN  IF od = <<>> THEN <<>> ELSE od[1].children

PropertiesOf(object) ==
    LET ps == SelectSeq(object.children, LAMBDA c : c.tag = "Properties")
    IN  IF ps = <<>> THEN <<>>
        ELSE SelectSeq(ps[1].children, LAMBDA c : c.tag = "Property")

HasProperties(object) == \E n \in 1..Len(object.children) : object.children[n].tag = "Properties"

\* the scanner's locations of one property, each wrapped into a Match
MatchesOfProperty(label, object, property, r) ==
    LET locations == find_locations(property, r).value
    IN  [k \in 1..Len(locations) |->
            Match(label, object.attrib["name"], property.attrib["name"], locations[k])]

MatchesOfObject(label, object, r) ==
    LET ps == PropertiesOf(object)
    IN  Flatten([p \in 1..Len(ps) |-> MatchesOfProperty(label, object, ps[p], r)])

\* objects in document order, properties in document order, locations in
\* leaf order
MatchesOfDocument(label, root, r) ==
    LET os == ObjectsOf(root)
    IN  Flatten([o \in 1..Len(os) |-> MatchesOfObject(label, os[o], r)])

\* no two objects of the document have the same name
DistinctObjectNames(root) ==
    \A o, q \in 1..Len(ObjectsOf(root)) :
        o # q => ObjectsOf(root)[o].attrib["name"] # ObjectsOf(root)[q].attrib["name"]

\* the position of the object of that name
ObjectIndex(root, name) ==
    CHOOSE o \in 1..Len(ObjectsOf(root)) : ObjectsOf(root)[o].attrib["name"] = name

(***************************************************************************)
(* C4: the walker returns the concatenation, over the objects in document  *)
(* order and over each object's Property nodes in document order, of the   *)
(* scanner's locations in leaf order, nothing dropped, repeated or         *)
(* deduplicated, each wrapped into a Match with the given label, the       *)
(* object's name, the property's name and the location; so the matches of  *)
(* an earlier object precede those of a later one.                         *)
(***************************************************************************)
C4_WalkerConcatenates ==
    (pc = "returned" /\ ret.ok) =>
        /\ ret.value = MatchesOfDocument(FileName(1), arg, ref)
        /\ DistinctObjectNames(arg) =>
              \A a, b \in 1..Len(ret.value) :
                  a < b => ObjectIndex(arg, ret.value[a].object_name)
                               <= ObjectIndex(arg, ret.value[b].object_name)

\* reached: a walk of two objects of different names that both hold matches,
\* one location being reported twice
C4_Witness ==
    /\ pc = "returned" /\ ret.ok
    /\ \E a, b \in 1..Len(ret.value) :
          a < b /\ ret.value[a].object_name # ret.value[b].object_name
    /\ \E a, b \in 1..Len(ret.value) : a < b /\ ret.value[a] = ret.value[b]
    /\ \E a \in 1..Len(ret.value) : ret.value[a].property_name = ExpressionEngine

(***************************************************************************)
(* The files of the corpus.  A file is a valid archive holding a           *)
(* well-formed Document.xml ("archive"), not a zip archive ("not_zip"), an *)
(* archive without a Document.xml member ("no_member"), or an archive      *)
(* whose Document.xml is not well-formed ("not_wellformed").               *)
(***************************************************************************)
Object(name, properties) ==
    Element("Object", [name |-> name], <<Element("Properties", NoAttrib, properties)>>)
Document(objects) ==
    Element("Document", NoAttrib, <<Element("ObjectData", NoAttrib, objects)>>)

\* one sheet with one cell that uses Main#Sheet.Value
OneCellDocument ==
    Document(<<Object(Sheet,
        <<LabelProperty,
          PropertyNode(cells,
              <<Element("Cells", NoAttrib, <<Cell(B1, EqMainSheetValue)>>)>>)>>)>>)

\* no reference-bearing property
InertDocument == Document(<<Object(Box, <<LabelProperty>>)>>)

\* two objects with several uses
BusyDocument ==
    Document(<<Object(Sheet, <<CellsProperty, ExpressionEngineProperty>>),
               Object(Box, <<ExpressionEngineProperty>>)>>)

\* an object with matches, then an object without a Properties section
NoPropertiesDocument ==
    Document(<<Object(Sheet, <<CellsProperty>>),
               Element("Object", [name |-> Box], <<>>)>>)

\* a cell without content after a cell that matches
NoContentDocument == Document(<<Object(Sheet, <<CellsWithoutContentProperty>>)>>)

\* an object with matches, then an object whose second expression has no
\* expression attribute
NoExpressionDocument ==
    Document(<<Object(Sheet, <<CellsProperty>>),
               Object(Box,
                   <<PropertyNode(ExpressionEngine,
                       <<Element("ExpressionEngine", NoAttrib,
                           <<Expression(Radius, MainSheetValue),
                             Element("Expression", [path |-> Height], <<>>)>>)>>)>>)>>)

Payloads ==
    {[kind |-> "archive", root |-> r] :
        r \in {OneCellDocument, InertDocument, BusyDocument, NoPropertiesDocument,
               NoContentDocument, NoExpressionDocument}}
    \cup {[kind |-> k, root |-> None] : k \in {"not_zip", "no_member", "not_wellformed"}}

\* glob.glob('*.FCStd'): files of distinct names, in listing order
Corpora ==
    {[k \in 1..Len(p) |-> [document |-> FileName(k), kind |-> p[k].kind, root |-> p[k].root]] :
        p \in SeqUpTo(Payloads, MaxDocs)}

(***************************************************************************)
(* Archive Document Loader.                                                *)
(***************************************************************************)
\* zipfile.ZipFile(document, 'r'): raises when the file is no zip archive
ZipFile(file) == IF file.kind = "not_zip" THEN Raise("BadZipFile") ELSE Ok(file)

\* archive.read('Document.xml'): raises when the archive has no such member
archive_read(file) == IF file.kind = "no_member" THEN Raise("KeyError") ELSE Ok(file)

\* ElementTree.fromstring(document_xml)
fromstring(file) == IF file.kind = "not_wellformed" THEN Raise("ParseError") ELSE Ok(file.root)

parse_document_xml(file) ==
    IF ~ZipFile(file).ok THEN Raise(ZipFile(file).error)
    ELSE IF ~archive_read(file).ok THEN Raise(archive_read(file).error)
         ELSE fromstring(file)

\* mutant: the dictionary keeps the latest document only
store_latest_root(dictionary, document, root) == <<[document |-> document, root |-> root]>>

\* root_by_document[document] = root; the file names are distinct, so the
\* assignment adds an entry
store_root(dictionary, document, root) ==
    Append(dictionary, [document |-> document, root |-> root])

(***************************************************************************)
(* Corpus Scan Orchestrator and CLI.                                       *)
(***************************************************************************)
\* mutant: the matches are labelled with the document of the reference
matches_in_referenced_document(item, reference) ==
    find_references_in_root(reference.document, item.root, reference)

\* find_references_in_root(document, root, reference) of one dictionary item
matches_in_document(item, reference) ==
    find_references_in_root(item.document, item.root, reference)

\* 'refrence' if num_matches == 1 else 'references'
word(num_matches) == IF num_matches = 1 THEN "refrence" ELSE "references"

\* the lines __main__ prints for the matches found
print_matches(found, reference) ==
    IF found # <<>>
    THEN <<ToString(Len(found)) \o " " \o word(Len(found)) \o " to "
              \o Join(Reference_to_string(reference)) \o " found:">>
         \o [k \in 1..Len(found) |-> "  " \o Join(Match_to_string(found[k]))]
    ELSE <<"No references to " \o Join(Reference_to_string(reference)) \o " found.">>

Init ==
    /\ corpus \in Corpora
    /\ ref \in References
    /\ pc = "load"
    /\ i = 1
    /\ root_by_document = <<>>
    /\ open = {}
    /\ matches = <<>>
    /\ result = Pending
    /\ stdout = <<>>
    /\ status = -1
    /\ arg = None
    /\ ret = Pending

\* One pass of the loop of find_root_by_document.  parse_document_xml never
\* closes the archive it opens: after a normal return nothing refers to the
\* ZipFile any more and the runtime closes it, at once or later (Finalize);
\* when read or fromstring raises, the handle stays open while the exception,
\* which nothing catches, ends the process with status 1.
LoadDocument ==
    /\ pc = "load"
    /\ i <= Len(corpus)
    /\ LET root == parse_document_xml(corpus[i])
       IN  IF root.ok
           THEN /\ root_by_document' = store_root(root_by_document, corpus[i].document, root.value)
                /\ i' = i + 1
                /\ \E at_once \in BOOLEAN : open' = IF at_once THEN open ELSE open \cup {i}
                /\ UNCHANGED <<pc, result, status>>
           ELSE /\ open' = IF ZipFile(corpus[i]).ok THEN open \cup {i} ELSE open
                /\ result' = Raise(root.error)
                /\ pc' = "exited"
                /\ status' = 1
                /\ UNCHANGED <<root_by_document, i>>
    /\ UNCHANGED <<corpus, ref, matches, stdout, arg, ret>>

\* find_root_by_document returns the dictionary; find_references starts its loop
LoadFinished ==
    /\ pc = "load"
    /\ i > Len(corpus)
    /\ pc' = "scan"
    /\ i' = 1
    /\ UNCHANGED <<corpus, ref, root_by_document, open, matches, result, stdout,
                   status, arg, ret>>

\* One pass of the loop of find_references.
ScanDocument ==
    /\ pc = "scan"
    /\ i <= Len(root_by_document)
    /\ LET matches_in == matches_in_document(root_by_document[i], ref)
       IN  IF matches_in.ok
           THEN /\ matches' = matches \o matches_in.value
                /\ i' = i + 1
                /\ UNCHANGED <<pc, result, status>>
           ELSE /\ result' = Raise(matches_in.error)
                /\ pc' = "exited"
                /\ status' = 1
                /\ UNCHANGED <<matches, i>>
    /\ UNCHANGED <<corpus, ref, root_by_document, open, stdout, arg, ret>>

\* find_references returns its matches; __main__ prints them and ends
Report ==
    /\ pc = "scan"
    /\ i > Len(root_by_document)
    /\ result' = Ok(matches)
    /\ stdout' = print_matches(matches, ref)
    /\ pc' = "exited"
    /\ status' = 0
    /\ UNCHANGED <<corpus, ref, i, root_by_document, open, matches, arg, ret>>

\* The runtime finalizes a ZipFile nothing refers to (ZipFile.__del__ closes it).
Finalize ==
    /\ pc # "exited"
    /\ \E h \in open : open' = open \ {h}
    /\ UNCHANGED <<corpus, ref, pc, i, root_by_document, matches, result, stdout,
                   status, arg, ret>>

Next == LoadDocument \/ LoadFinished \/ ScanDocument \/ Report \/ Finalize

Spec == Init /\ [][Next]_vars

(***************************************************************************)
(* Helpers of the properties of the corpus scan.                           *)
(***************************************************************************)
Loadable(file) == file.kind = "archive"

\* the walker returns normally on the document of this file
Scannable(file) == Loadable(file) /\ find_references_in_root(file.document, file.root, ref).ok

\* the matches of the documents that load, in listing order
MatchesOfLoadable ==
    Flatten([k \in 1..Len(corpus) |->
                IF Loadable(corpus[k])
                THEN MatchesOfDocument(corpus[k].document, corpus[k].root, ref)
                ELSE <<>>])

\* the document of file k holds, in an object and a property of the names
\* the match gives, a leaf at the match's location that the scanner reports
FoundIn(m, k) ==
    /\ Loadable(corpus[k])
    /\ corpus[k].document = m.document
    /\ \E o \in 1..Len(ObjectsOf(corpus[k].root)) :
          LET object == ObjectsOf(corpus[k].root)[o]
          IN  /\ object.attrib["name"] = m.object_name
              /\ \E q \in 1..Len(PropertiesOf(object)) :
                    LET property == PropertiesOf(object)[q]
                        locations == find_locations(property, ref).value
                    IN  /\ property.attrib["name"] = m.property_name
                        /\ \E l \in 1..Len(locations) : locations[l] = m.location

\* how many documents have been loaded, and how many scanned
Loaded == Len(root_by_document)
Scanned == IF pc = "scan" THEN i - 1 ELSE 0

(***************************************************************************)
(* C1: a document that fails to load is skipped: the scan completes and    *)
(* returns the matches of every other document, none of the failed one.    *)
(***************************************************************************)
C1_FailedDocumentIsSkipped ==
    (/\ pc = "exited"
     /\ \E k \in 1..Len(corpus) : ~Loadable(corpus[k])
     /\ \A k \in 1..Len(corpus) : Loadable(corpus[k]) => Scannable(corpus[k]))
        => result = Ok(MatchesOfLoadable)

(***************************************************************************)
(* C5: the corpus scan runs the walker on every discovered document and    *)
(* labels each Match with the name of the file the occurrence was found    *)
(* in; a corpus of a document with one matching Cell and a document        *)
(* without reference-bearing property yields exactly one Match, labelled   *)
(* with the first file's name.                                             *)
(***************************************************************************)
C5_MatchesLabelledByFile ==
    (pc = "exited" /\ result.ok) =>
        /\ result.value = MatchesOfLoadable
        /\ \A n \in 1..Len(result.value) :
              \E k \in 1..Len(corpus) : FoundIn(result.value[n], k)
        /\ (/\ Len(corpus) = 2
            /\ corpus[1].root = OneCellDocument
            /\ corpus[2].root = InertDocument
            /\ ref = Reference(Main, Sheet, Value))
              => result.value = <<Match(FileName(1), Sheet, cells, B1)>>

\* reached: the scan of the two-document corpus ended with the one Match,
\* whose document is not the document field of the reference
C5_Witness ==
    /\ pc = "exited"
    /\ Len(corpus) = 2
    /\ corpus[1].root = OneCellDocument
    /\ corpus[2].root = InertDocument
    /\ result = Ok(<<Match(FileName(1), Sheet, cells, B1)>>)
    /\ result.value[1].document # ref.document

(***************************************************************************)
(* C6, as the specification states it: each document is loaded, scanned    *)
(* and discarded before the next is opened: at most one archive is open,   *)
(* at most one parsed document is held, and document i is scanned before   *)
(* document i+1 is loaded.                                                 *)
(***************************************************************************)
C6_OneDocumentAtATime ==
    pc # "exited" =>
        /\ Cardinality(open) <= 1
        /\ Len(root_by_document) <= 1
        /\ Loaded <= Scanned + 1

(***************************************************************************)
(* C6, amended: every discovered document is loaded, in listing order,     *)
(* before any document is scanned, and all parsed documents are held until *)
(* the scan ends; the documents are then scanned one at a time in listing  *)
(* order.                                                                  *)
(***************************************************************************)
C6_LoadAllThenScan ==
    /\ pc = "load" =>
          /\ matches = <<>>
          /\ Loaded = i - 1
    /\ pc = "scan" =>
          /\ Loaded = Len(corpus)
          /\ \A k \in 1..Len(corpus) :
                /\ root_by_document[k].document = corpus[k].document
                /\ root_by_document[k].root = corpus[k].root
          /\ matches = Flatten([k \in 1..(i - 1) |->
                          MatchesOfDocument(corpus[k].document, corpus[k].root, ref)])

\* reached: the first of two documents has been scanned, with matches, while
\* both parsed documents are held
C6_Witness ==
    /\ pc = "scan"
    /\ i = 2
    /\ Len(corpus) = 2
    /\ Len(root_by_document) = 2
    /\ matches # <<>>

(***************************************************************************)
(* C7: the loader closes the archive it opened on every exit path (normal  *)
(* return, missing Document.xml, parse failure): once a call of load has   *)
(* ended, its archive is not open.  Every step of the model is outside the *)
(* calls of load.                                                          *)
(***************************************************************************)
C7_ArchiveClosedWhenLoadEnds == open = {}

(***************************************************************************)
(* C8: an Object without a Properties section makes the walker fail with   *)
(* an error: the scan of a corpus holding such a document never returns a  *)
(* match sequence, so no match of that object and no partial match of its  *)
(* document is in a result, and nothing is printed.                        *)
(***************************************************************************)
C8_MissingPropertiesFails ==
    (/\ pc = "exited"
     /\ \E k \in 1..Len(corpus) :
           /\ Loadable(corpus[k])
           /\ \E o \in 1..Len(ObjectsOf(corpus[k].root)) :
                 ~HasProperties(ObjectsOf(corpus[k].root)[o]))
        => (~result.ok /\ status = 1 /\ stdout = <<>>)

\* reached: the document whose second object has no Properties section, and
\* whose first object holds matches, was scanned after a document with
\* matches, and the scan ended with the error
C8_Witness ==
    /\ pc = "exited"
    /\ Len(corpus) = 2
    /\ corpus[2].root = NoPropertiesDocument
    /\ i = 2
    /\ matches # <<>>
    /\ result = Raise("AttributeError")
    /\ stdout = <<>>

(***************************************************************************)
(* C9: the process exits with status 0 whatever the corpus contains.       *)
(***************************************************************************)
C9_ExitStatusZero == pc = "exited" => status = 0

(***************************************************************************)
(* C10: with one match the banner reads "1 reference to X found:", with    *)
(* N > 1 matches "N references to X found:", either followed by one        *)
(* rendered Match per match; with no match the output is the one line      *)
(* "No references to X found.".                                            *)
(***************************************************************************)
C10_BannerPluralizes ==
    (pc = "exited" /\ result.ok) =>
        LET n == Len(result.value)
            X == Join(Reference_to_string(ref))
        IN  /\ n = 0 => stdout = <<"No references to " \o X \o " found.">>
            /\ n = 1 => stdout[1] = "1 reference to " \o X \o " found:"
            /\ n > 1 => stdout[1] = ToString(n) \o " references to " \o X \o " found:"
            /\ n > 0 =>
                  /\ Len(stdout) = n + 1
                  /\ \A k \in 1..n :
                        stdout[k + 1] = "  " \o Join(Match_to_string(result.value[k]))

(***************************************************************************)
(* C11: in a reference-bearing property, a Cell or Expression leaf without *)
(* its content attribute is never skipped: the scan of the property fails  *)
(* with an error and returns no location, also none of the leaves before   *)
(* it that matched; the error leaves the walker and the corpus scan, so no *)
(* match sequence is returned and nothing is printed.                      *)
(***************************************************************************)
HasLeafWithoutContent(property) ==
    /\ IsReferenceBearing(property)
    /\ \E l \in 1..Len(LeavesOf(property)) :
          ContentAttribute(LeavesOf(property)[l]) \notin DOMAIN LeavesOf(property)[l].attrib

C11_LeafWithoutContentFails ==
    \A k \in 1..Len(corpus) :
        Loadable(corpus[k]) =>
            \A o \in 1..Len(ObjectsOf(corpus[k].root)) :
                \A q \in 1..Len(PropertiesOf(ObjectsOf(corpus[k].root)[o])) :
                    LET property == PropertiesOf(ObjectsOf(corpus[k].root)[o])[q]
                    IN  HasLeafWithoutContent(property) =>
                            /\ find_locations(property, ref) = Raise("KeyError")
                            /\ ~find_references_in_root(corpus[k].document,
                                                        corpus[k].root, ref).ok
                            /\ pc = "exited" =>
                                  (~result.ok /\ status = 1 /\ stdout = <<>>)

\* reached: after a document with matches, the document whose sheet has a
\* matching cell followed by a cell without content was scanned, and the
\* scan ended with the KeyError
C11_Witness ==
    /\ pc = "exited"
    /\ Len(corpus) = 2
    /\ corpus[2].root = NoContentDocument
    /\ ref = Reference(Main, Sheet, Value)
    /\ i = 2
    /\ matches # <<>>
    /\ result = Raise("KeyError")
    /\ status = 1
    /\ stdout = <<>>

====
